---------------------------- MODULE Spec2Model ----------------------------
(***************************************************************************)
(* A model of the lookup generator of screen-reader-HTML-support:          *)
(*   .github/scripts/generate_lookup_copy.py  (TableGrabber, choose_header,*)
(*       convert, build_bundle, validate_for_lookup, inject_json, main)    *)
(*   .github/scripts/update_lookup.py         (replace_json_in_lookup)     *)
(*                                                                         *)
(* Strings are sequences of one-character strings.  NL stands for U+000A,  *)
(* a tag written into cell_html is one element of the sequence (the code   *)
(* appends it as one string), and a header word ("Element", "HTML", ...)   *)
(* is one element as well.                                                 *)
(***************************************************************************)
EXTENDS Integers, Sequences, FiniteSets, TLC

VARIABLES
    grab,         \* the TableGrabber instance (all fields of reset_state)
    ev,           \* the parser event handled last
    fed,          \* number of events fed so far
    pc,           \* the call the program is at, or how the run ended
    chosen,       \* the headers convert chose (its "headers = ..." line)
    bundle,       \* the Bundle (data)
    problems,     \* the problems validate_for_lookup reported
    template,     \* the text of the template document
    merged,       \* what inject_json returned
    lookup_file,  \* the text of the lookup file on disk (update_lookup.py)
    inputs,       \* the input documents of INPUT_FILES, in order
    out_html,     \* the output HTML file
    out_json      \* the sibling JSON file

vars == <<grab, ev, fed, pc, chosen, bundle, problems, template, merged, lookup_file,
          inputs, out_html, out_json>>
parserVars == <<grab, ev, fed>>
outVars == <<inputs, out_html, out_json>>

-----------------------------------------------------------------------------
(* Bounds *)
MaxEvents == 7
MaxStrLen == 3
MaxTemplateLen == 4
MaxHeaderCells == 3
MaxCols == 2
MaxDataCells == 3
MaxInputs == 2

\* the sequences over S of length at most n
SeqsUpTo(S, n) == UNION { [1..k -> S] : k \in 0..n }

-----------------------------------------------------------------------------
(* Characters and strings *)
NL == "\n"
SP == " "

IsSpace(c) == c \in {SP, NL, "\t"}

RECURSIVE LStrip(_)
LStrip(s) == IF s # <<>> /\ IsSpace(Head(s)) THEN LStrip(Tail(s)) ELSE s

RECURSIVE RStrip(_)
RStrip(s) ==
    IF s # <<>> /\ IsSpace(s[Len(s)]) THEN RStrip(SubSeq(s, 1, Len(s) - 1)) ELSE s

\* str.strip()
Strip(s) == RStrip(LStrip(s))

\* str.splitlines(): the pieces between line breaks (no trailing empty piece)
RECURSIVE SplitLinesFrom(_, _)
SplitLinesFrom(s, cur) ==
    IF s = <<>> THEN (IF cur = <<>> THEN <<>> ELSE <<cur>>)
    ELSE IF Head(s) = NL THEN <<cur>> \o SplitLinesFrom(Tail(s), <<>>)
    ELSE SplitLinesFrom(Tail(s), Append(cur, Head(s)))

SplitLines(s) == SplitLinesFrom(s, <<>>)

\* "\n".join(lines)
RECURSIVE JoinNL(_)
JoinNL(lines) ==
    IF lines = <<>> THEN <<>>
    ELSE IF Len(lines) = 1 THEN lines[1]
    ELSE lines[1] \o <<NL>> \o JoinNL(Tail(lines))

\* re.sub(r"\s+", " ", s)
RECURSIVE CollapseWs(_)
CollapseWs(s) ==
    IF s = <<>> THEN <<>>
    ELSE IF IsSpace(Head(s))
         THEN <<SP>> \o CollapseWs(LStrip(s))
         ELSE <<Head(s)>> \o CollapseWs(Tail(s))

\* html.unescape: a reference left in the text as "&lt;" / "&gt;" / "&#60;"
\* becomes the character it names; every other element is kept
UnescapeChar(c) ==
    CASE c = "&lt;"  -> "<"
      [] c = "&#60;" -> "<"
      [] c = "&gt;"  -> ">"
      [] OTHER       -> c

unescape(s) == [i \in 1..Len(s) |-> UnescapeChar(s[i])]


-----------------------------------------------------------------------------
(* TableGrabber *)

\* reset_state(): the parser right after construction
reset_state ==
    [ in_table |-> FALSE, table_seen |-> FALSE,
      in_caption |-> FALSE, caption_text |-> <<>>, caption_links |-> <<>>,
      in_thead |-> FALSE, thead_rows |-> <<>>,
      in_tr |-> FALSE, tr_cells |-> <<>>, tr_has_th |-> FALSE, tr_has_td |-> FALSE,
      in_cell |-> FALSE, cell_text |-> <<>>, cell_html |-> <<>>,
      header_candidates |-> <<>>, data_rows |-> <<>> ]

\* the first truthy href of attrs (a sequence of <<k, v>> pairs), or <<>>
RECURSIVE FirstHref(_)
FirstHref(attrs) ==
    IF attrs = <<>> THEN <<>>
    ELSE IF Head(attrs)[1] = "href" /\ Head(attrs)[2] # ""
         THEN <<Head(attrs)[2]>>
         ELSE FirstHref(Tail(attrs))

\* "".join(f' {k}="{v}"' for k, v in attrs)
RECURSIVE AttrsStr(_)
AttrsStr(attrs) ==
    IF attrs = <<>> THEN ""
    ELSE " " \o Head(attrs)[1] \o "=\"" \o Head(attrs)[2] \o "\"" \o AttrsStr(Tail(attrs))

OpenTag(tag, attrs) == IF tag = "br" THEN "<br>" ELSE "<" \o tag \o AttrsStr(attrs) \o ">"
\* f"</{tag}>": "<" and "/" are elements of their own, as in any string
CloseTag(tag) == <<"<", "/", tag \o ">">>

IsAnchorWithHref(tok) == tok = OpenTag("a", << <<"href", "u">> >>)

\* index at which the first "</a>" of html at or after i starts, 0 when
\* there is none
RECURSIVE FirstAnchorEnd(_, _)
FirstAnchorEnd(html, i) ==
    IF i + 2 > Len(html) THEN 0
    ELSE IF SubSeq(html, i, i + 2) = CloseTag("a") THEN i
    ELSE FirstAnchorEnd(html, i + 1)

\* re.finditer(r'<a\b[^>]*href="([^"]+)"[^>]*>(.*?)</a>', cell_html): the
\* non-overlapping anchors, left to right, each with its href and its text
RECURSIVE CellLinks(_, _)
CellLinks(html, i) ==
    IF i > Len(html) THEN <<>>
    ELSE IF IsAnchorWithHref(html[i])
         THEN LET j == FirstAnchorEnd(html, i + 1)
              IN  IF j = 0 THEN <<>>
                  ELSE << [ href |-> "u",
                            text |-> Strip(CollapseWs(unescape(SubSeq(html, i + 1, j - 1)))) ] >>
                       \o CellLinks(html, j + 3)
         ELSE CellLinks(html, i + 1)

\* the non-blank lines of text, each stripped
RECURSIVE StrippedLines(_)
StrippedLines(lines) ==
    IF lines = <<>> THEN <<>>
    ELSE IF Strip(Head(lines)) # <<>>
         THEN <<Strip(Head(lines))>> \o StrippedLines(Tail(lines))
         ELSE StrippedLines(Tail(lines))

\* text_norm of handle_endtag
TextNorm(cell_text) == JoinNL(StrippedLines(SplitLines(unescape(cell_text))))

\* the cell handle_endtag appends to tr_cells: (text_norm, cell_html, links)
FinishCell(g) == << TextNorm(g.cell_text), g.cell_html, CellLinks(g.cell_html, 1) >>

handle_starttag(g, tag, attrs) ==
    LET g1 == IF tag = "table" /\ ~g.table_seen
                  THEN [g EXCEPT !.table_seen = TRUE, !.in_table = TRUE]
              ELSE IF g.in_table /\ tag = "caption"
                  THEN [g EXCEPT !.in_caption = TRUE]
              ELSE IF g.in_table /\ tag = "thead"
                  THEN [g EXCEPT !.in_thead = TRUE]
              ELSE IF g.in_table /\ tag = "tr"
                  THEN [g EXCEPT !.in_tr = TRUE, !.tr_cells = <<>>,
                                 !.tr_has_th = FALSE, !.tr_has_td = FALSE]
              ELSE IF g.in_tr /\ tag \in {"td", "th"}
                  THEN [g EXCEPT !.in_cell = TRUE, !.cell_text = <<>>, !.cell_html = <<>>,
                                 !.tr_has_th = (g.tr_has_th \/ tag = "th"),
                                 !.tr_has_td = (g.tr_has_td \/ tag = "td")]
              ELSE g
        g2 == IF g1.in_caption /\ tag = "a"
                  THEN [g1 EXCEPT !.caption_links = g1.caption_links \o FirstHref(attrs)]
              ELSE g1
    IN  IF g2.in_cell /\ tag \notin {"td", "th"}
            THEN [g2 EXCEPT !.cell_html = Append(g2.cell_html, OpenTag(tag, attrs))]
        ELSE g2

handle_endtag(g, tag) ==
    LET g1 == IF tag = "caption" /\ g.in_caption
                  THEN [g EXCEPT !.in_caption = FALSE]
              ELSE IF tag = "thead" /\ g.in_thead
                  THEN [g EXCEPT !.in_thead = FALSE]
              ELSE IF tag \in {"td", "th"} /\ g.in_cell
                  THEN [g EXCEPT !.tr_cells = Append(g.tr_cells, FinishCell(g)),
                                 !.in_cell = FALSE, !.cell_text = <<>>, !.cell_html = <<>>]
              ELSE IF tag = "tr" /\ g.in_tr
                  THEN LET h == IF g.tr_cells = <<>> THEN g
                                ELSE IF g.tr_has_th /\ ~g.tr_has_td
                                     THEN IF g.in_thead
                                          THEN [g EXCEPT !.thead_rows = Append(g.thead_rows, g.tr_cells)]
                                          ELSE [g EXCEPT !.header_candidates =
                                                             Append(g.header_candidates, g.tr_cells)]
                                     ELSE [g EXCEPT !.data_rows = Append(g.data_rows, g.tr_cells)]
                       IN  [h EXCEPT !.in_tr = FALSE, !.tr_cells = <<>>,
                                     !.tr_has_th = FALSE, !.tr_has_td = FALSE]
              ELSE IF tag = "table" /\ g.in_table
                  THEN [g EXCEPT !.in_table = FALSE]
              ELSE g
    IN  IF g1.in_cell /\ tag \notin {"td", "th", "br"}
            THEN [g1 EXCEPT !.cell_html = g1.cell_html \o CloseTag(tag)]
        ELSE g1

handle_data(g, data) ==
    LET g1 == IF g.in_cell
                  THEN [g EXCEPT !.cell_text = Append(g.cell_text, data),
                                 !.cell_html = Append(g.cell_html, data)]
              ELSE g
    IN  IF g1.in_caption
            THEN [g1 EXCEPT !.caption_text = Append(g1.caption_text, data)]
        ELSE g1

\* TableGrabber defines neither handle_entityref nor handle_charref, and it is
\* built with convert_charrefs=False: html.parser calls the inherited handlers,
\* which do nothing
handle_entityref(g, name) == g
handle_charref(g, name) == g

-----------------------------------------------------------------------------
(* The events html.parser feeds to the grabber *)
Tags == {"table", "caption", "thead", "tr", "td", "th", "a", "br", "li"}
EndTags == Tags \ {"br"}
AttrsOf(tag) == IF tag = "a" THEN { <<>>, << <<"href", "u">> >> } ELSE { <<>> }
DataChars == {"a", SP, NL}
EntityNames == {"lt"}
CharRefs == {"60"}

NoEvent == [kind |-> "none"]
None == <<"none">>

InitGrab ==
    /\ grab = reset_state
    /\ ev = NoEvent
    /\ fed = 0
    /\ pc = "feed"
    /\ chosen = None /\ bundle = None /\ problems = None
    /\ template = None /\ merged = None /\ lookup_file = None
    /\ inputs = None /\ out_html = None /\ out_json = None

StartTag ==
    /\ fed < MaxEvents
    /\ \E tag \in Tags : \E attrs \in AttrsOf(tag) :
          /\ grab' = handle_starttag(grab, tag, attrs)
          /\ ev' = [kind |-> "starttag", tag |-> tag]
    /\ fed' = fed + 1
    /\ UNCHANGED <<pc, chosen, bundle, problems, template, merged, lookup_file, outVars>>

EndTag ==
    /\ fed < MaxEvents
    /\ \E tag \in EndTags :
          /\ grab' = handle_endtag(grab, tag)
          /\ ev' = [kind |-> "endtag", tag |-> tag]
    /\ fed' = fed + 1
    /\ UNCHANGED <<pc, chosen, bundle, problems, template, merged, lookup_file, outVars>>

Data ==
    /\ fed < MaxEvents
    /\ \E c \in DataChars :
          /\ grab' = handle_data(grab, c)
          /\ ev' = [kind |-> "data", data |-> c]
    /\ fed' = fed + 1
    /\ UNCHANGED <<pc, chosen, bundle, problems, template, merged, lookup_file, outVars>>

EntityRef ==
    /\ fed < MaxEvents
    /\ \E name \in EntityNames :
          /\ grab' = handle_entityref(grab, name)
          /\ ev' = [kind |-> "entityref", ref |-> "&" \o name \o ";"]
    /\ fed' = fed + 1
    /\ UNCHANGED <<pc, chosen, bundle, problems, template, merged, lookup_file, outVars>>

CharRef ==
    /\ fed < MaxEvents
    /\ \E name \in CharRefs :
          /\ grab' = handle_charref(grab, name)
          /\ ev' = [kind |-> "charref", ref |-> "&#" \o name \o ";"]
    /\ fed' = fed + 1
    /\ UNCHANGED <<pc, chosen, bundle, problems, template, merged, lookup_file, outVars>>

NextGrab == StartTag \/ EndTag \/ Data \/ EntityRef \/ CharRef

SpecGrab == InitGrab /\ [][NextGrab]_vars

-----------------------------------------------------------------------------
(* Claims about TableGrabber, under SpecGrab *)

\* C7: a character or entity reference met inside a cell is appended verbatim
\* to the text and the markup accumulators, and one met inside a caption to
\* the caption text accumulator
C7_ReferencePreserved ==
    [][ ev'.kind \in {"entityref", "charref"} =>
          /\ grab.in_cell =>
                /\ grab'.cell_text = Append(grab.cell_text, ev'.ref)
                /\ grab'.cell_html = Append(grab.cell_html, ev'.ref)
          /\ grab.in_caption =>
                grab'.caption_text = Append(grab.caption_text, ev'.ref) ]_vars

\* the cells the grabber has finished so far
RECURSIVE Flatten(_)
Flatten(rows) == IF rows = <<>> THEN <<>> ELSE Head(rows) \o Flatten(Tail(rows))

FinishedCells(g) ==
    g.tr_cells \o Flatten(g.thead_rows) \o Flatten(g.header_candidates) \o Flatten(g.data_rows)

\* the line structure C8 describes: the content is cut at list item boundaries
\* and at <br> (and at a line break of the source), other tags carry no text,
\* whitespace is collapsed, each line trimmed, empty lines dropped
IsBreak(tok) == tok \in {OpenTag("br", <<>>), OpenTag("li", <<>>), CloseTag("li")[3], NL}
IsText(tok) == tok \in DataChars \cup {"&lt;", "&#60;", "&gt;"}

RECURSIVE BlockPieces(_, _)
BlockPieces(html, cur) ==
    IF html = <<>> THEN <<cur>>
    ELSE IF IsBreak(Head(html)) THEN <<cur>> \o BlockPieces(Tail(html), <<>>)
    ELSE IF IsText(Head(html)) THEN BlockPieces(Tail(html), Append(cur, Head(html)))
    ELSE BlockPieces(Tail(html), cur)

RECURSIVE CollapsedLines(_)
CollapsedLines(pieces) ==
    IF pieces = <<>> THEN <<>>
    ELSE LET ln == Strip(CollapseWs(unescape(Head(pieces))))
         IN  (IF ln = <<>> THEN <<>> ELSE <<ln>>) \o CollapsedLines(Tail(pieces))

BlockLines(html) == JoinNL(CollapsedLines(BlockPieces(html, <<>>)))

\* C8: every finished cell's text is its content cut at block-level breaks
\* (list items, <br>), whitespace collapsed, lines trimmed and joined by NL
C8_CellTextLines ==
    \A i \in 1..Len(FinishedCells(grab)) :
        FinishedCells(grab)[i][1] = BlockLines(FinishedCells(grab)[i][2])

\* C9: once the first table's end tag has been processed, no later event
\* changes what was extracted
C9_FirstTableOnly ==
    [][ (grab.table_seen /\ ~grab.in_table) =>
          /\ grab'.caption_text = grab.caption_text
          /\ grab'.caption_links = grab.caption_links
          /\ grab'.thead_rows = grab.thead_rows
          /\ grab'.header_candidates = grab.header_candidates
          /\ grab'.data_rows = grab.data_rows ]_vars

-----------------------------------------------------------------------------
(* JSON text: json.dumps(data, ensure_ascii=False, separators=(",", ":")) *)
(* and json.loads.  A JSON document is handled as its lexemes: punctuation *)
(* and string literals, in order.                                          *)

BS == "\\"
DQ == "\""
TAB == "\t"
CTL == "U+0001"     \* a control character other than NL and TAB

Punct(c) == [t |-> "punct", v |-> <<c>>]
Str(s) == [t |-> "str", v |-> s]

\* the concatenation of the sequences seqs[lo..hi] (by halves: the depth of
\* the evaluation stays logarithmic in the length)
RECURSIVE ConcatRange(_, _, _)
ConcatRange(seqs, lo, hi) ==
    IF lo > hi THEN <<>>
    ELSE IF lo = hi THEN seqs[lo]
    ELSE LET mid == (lo + hi) \div 2
         IN  ConcatRange(seqs, lo, mid) \o ConcatRange(seqs, mid + 1, hi)

Concat(seqs) == ConcatRange(seqs, 1, Len(seqs))

\* the rendered parts, separated by ","
RECURSIVE CommaSep(_)
CommaSep(parts) ==
    IF parts = <<>> THEN <<>>
    ELSE IF Len(parts) = 1 THEN parts[1]
    ELSE parts[1] \o <<Punct(",")>> \o CommaSep(Tail(parts))

\* a dict is the sequence of its <<key, value>> pairs, in insertion order
LexStr(s) == <<Str(s)>>
LexStrList(xs) == <<Punct("[")>> \o CommaSep([i \in 1..Len(xs) |-> LexStr(xs[i])]) \o <<Punct("]")>>
LexStrPair(kv) == <<Str(kv[1]), Punct(":")>> \o LexStr(kv[2])
LexStrDict(d) == <<Punct("{")>> \o CommaSep([i \in 1..Len(d) |-> LexStrPair(d[i])]) \o <<Punct("}")>>
LexLink(l) == LexStrDict(<< <<<<"href">>, <<l.href>>>>, <<<<"text">>, l.text>> >>)
LexLinkList(ls) == <<Punct("[")>> \o CommaSep([i \in 1..Len(ls) |-> LexLink(ls[i])]) \o <<Punct("]")>>
LexLinksPair(kv) == <<Str(kv[1]), Punct(":")>> \o LexLinkList(kv[2])
LexLinksDict(d) == <<Punct("{")>> \o CommaSep([i \in 1..Len(d) |-> LexLinksPair(d[i])]) \o <<Punct("}")>>

\* one entry of a Record: a header's text, or the _html / _links side-channel
LexRecordPair(kv) ==
    <<Str(kv[1]), Punct(":")>> \o
    ( IF kv[1] = <<"_html">> THEN LexStrDict(kv[2])
      ELSE IF kv[1] = <<"_links">> THEN LexLinksDict(kv[2])
      ELSE LexStr(kv[2]) )
LexRecord(obj) == <<Punct("{")>> \o CommaSep([i \in 1..Len(obj) |-> LexRecordPair(obj[i])]) \o <<Punct("}")>>
LexRows(rows) == <<Punct("[")>> \o CommaSep([i \in 1..Len(rows) |-> LexRecord(rows[i])]) \o <<Punct("]")>>

LexSection(sec) ==
    <<Punct("{")>>
    \o <<Str(<<"screen_reader">>), Punct(":")>> \o LexStr(sec.screen_reader) \o <<Punct(",")>>
    \o <<Str(<<"caption">>), Punct(":")>> \o LexStr(sec.caption) \o <<Punct(",")>>
    \o <<Str(<<"date">>), Punct(":")>> \o LexStr(sec.date) \o <<Punct(",")>>
    \o <<Str(<<"caption_links">>), Punct(":")>> \o LexStrList(sec.caption_links) \o <<Punct(",")>>
    \o <<Str(<<"rows">>), Punct(":")>> \o LexRows(sec.rows)
    \o <<Punct("}")>>

\* the lexemes of a Bundle (a list of Sections)
Lexemes(data) == <<Punct("[")>> \o CommaSep([i \in 1..Len(data) |-> LexSection(data[i])]) \o <<Punct("]")>>

\* json's escape of one character of a string (ensure_ascii=False)
JsonEscapeChar(c) ==
    CASE c = DQ  -> <<BS, DQ>>
      [] c = BS  -> <<BS, BS>>
      [] c = NL  -> <<BS, "n">>
      [] c = TAB -> <<BS, "t">>
      [] c = CTL -> <<BS, "u", "0", "0", "0", "1">>
      [] OTHER   -> <<c>>

RenderLexeme(x) ==
    IF x.t = "punct" THEN x.v
    ELSE <<DQ>> \o Concat([i \in 1..Len(x.v) |-> JsonEscapeChar(x.v[i])]) \o <<DQ>>

\* json.dumps(data, ensure_ascii=False, separators=(",", ":"))
dumps(data) ==
    LET lex == Lexemes(data)
    IN  Concat([i \in 1..Len(lex) |-> RenderLexeme(lex[i])])

\* json.loads, as far as the lexemes: JsonError for text json rejects (a
\* raw control character or a bad escape in a string, an unterminated
\* string, anything but punctuation and whitespace outside a string).
\* The scanner's state: mode "out" (between lexemes), "str" (in a string),
\* "esc" (after a backslash in a string), "u0".."u3" (in a \u escape),
\* "error"; cur is the string read so far, out the lexemes read so far.
JsonError == <<"error">>

LexStep(st, c) ==
    CASE st.mode = "error" -> st
      [] st.mode = "out" ->
            IF c \in {"[", "]", "{", "}", ":", ","} THEN [st EXCEPT !.out = Append(st.out, Punct(c))]
            ELSE IF IsSpace(c) THEN st
            ELSE IF c = DQ THEN [st EXCEPT !.mode = "str", !.cur = <<>>]
            ELSE [st EXCEPT !.mode = "error"]
      [] st.mode = "str" ->
            IF c = DQ THEN [st EXCEPT !.mode = "out", !.out = Append(st.out, Str(st.cur)), !.cur = <<>>]
            ELSE IF c \in {NL, TAB, CTL} THEN [st EXCEPT !.mode = "error"]
            ELSE IF c = BS THEN [st EXCEPT !.mode = "esc"]
            ELSE [st EXCEPT !.cur = Append(st.cur, c)]
      [] st.mode = "esc" ->
            CASE c \in {DQ, BS, "/"} -> [st EXCEPT !.mode = "str", !.cur = Append(st.cur, c)]
              [] c = "n" -> [st EXCEPT !.mode = "str", !.cur = Append(st.cur, NL)]
              [] c = "t" -> [st EXCEPT !.mode = "str", !.cur = Append(st.cur, TAB)]
              [] c = "u" -> [st EXCEPT !.mode = "u0"]
              [] OTHER -> [st EXCEPT !.mode = "error"]
      [] st.mode = "u0" -> [st EXCEPT !.mode = IF c = "0" THEN "u1" ELSE "error"]
      [] st.mode = "u1" -> [st EXCEPT !.mode = IF c = "0" THEN "u2" ELSE "error"]
      [] st.mode = "u2" -> [st EXCEPT !.mode = IF c = "0" THEN "u3" ELSE "error"]
      [] st.mode = "u3" ->
            IF c = "1" THEN [st EXCEPT !.mode = "str", !.cur = Append(st.cur, CTL)]
            ELSE [st EXCEPT !.mode = "error"]

\* the scanner's state after text[lo..hi], started in st (by halves)
RECURSIVE LexRange(_, _, _, _)
LexRange(text, lo, hi, st) ==
    IF lo > hi THEN st
    ELSE IF lo = hi THEN LexStep(st, text[lo])
    ELSE LET mid == (lo + hi) \div 2
             left == LexRange(text, lo, mid, st)
         IN  IF left.mode = "error" THEN left ELSE LexRange(text, mid + 1, hi, left)

loads(text) ==
    LET st == LexRange(text, 1, Len(text), [mode |-> "out", cur |-> <<>>, out |-> <<>>])
    IN  IF st.mode = "out" THEN st.out ELSE JsonError

-----------------------------------------------------------------------------
(* inject_json / replace_json_in_lookup *)

\* the template's text: carrier tags are single elements, SP is whitespace,
\* "x" any other character
OPEN == "<script id=\"data\" type=\"application/json\">"
CLOSE == "</script>"

\* the escaping left out
EscapeCloseTags_Unescaped(s) == s

\* payload.replace("</", "<\\/"): the "/" of every "</" gets a backslash
EscapeCloseTags(s) ==
    Concat([i \in 1..Len(s) |->
               IF s[i] = "/" /\ i > 1 /\ s[i - 1] = "<" THEN <<BS, "/">> ELSE <<s[i]>>])

\* payload of inject_json (line 319) and replace_json_in_lookup (line 197)
Payload(data) == EscapeCloseTags(dumps(data))

\* what re makes of the payload as (part of) the replacement template
\* rf"\1{payload}\3": a backslash escape is processed (ReError for a bad
\* escape).  The scanner's state: esc (a backslash is pending), bad, and out.
ReError == <<"re.error">>
AsciiLetters == {"a", "b", "f", "n", "r", "t", "u", "v", "x"}

ExpandStep(st, c) ==
    IF st.bad THEN st
    ELSE IF ~st.esc
         THEN IF c = BS THEN [st EXCEPT !.esc = TRUE] ELSE [st EXCEPT !.out = Append(st.out, c)]
    ELSE CASE c = BS  -> [st EXCEPT !.esc = FALSE, !.out = Append(st.out, BS)]
           [] c = "n" -> [st EXCEPT !.esc = FALSE, !.out = Append(st.out, NL)]
           [] c = "t" -> [st EXCEPT !.esc = FALSE, !.out = Append(st.out, TAB)]
           [] c \in AsciiLetters \ {"n", "t"} -> [st EXCEPT !.bad = TRUE]
           [] OTHER   -> [st EXCEPT !.esc = FALSE, !.out = st.out \o <<BS, c>>]

RECURSIVE ExpandRange(_, _, _, _)
ExpandRange(s, lo, hi, st) ==
    IF lo > hi THEN st
    ELSE IF lo = hi THEN ExpandStep(st, s[lo])
    ELSE LET mid == (lo + hi) \div 2
             left == ExpandRange(s, lo, mid, st)
         IN  IF left.bad THEN left ELSE ExpandRange(s, mid + 1, hi, left)

ExpandTemplate(s) ==
    LET st == ExpandRange(s, 1, Len(s), [esc |-> FALSE, bad |-> FALSE, out |-> <<>>])
    IN  IF st.bad \/ st.esc THEN ReError ELSE st.out

\* index of the first carrier opening tag of T at or after i, 0 if none
RECURSIVE FirstOpen(_, _)
FirstOpen(T, i) ==
    IF i > Len(T) THEN 0 ELSE IF T[i] = OPEN THEN i ELSE FirstOpen(T, i + 1)

\* index of the first </script> of T at or after i, 0 if none
RECURSIVE FirstClose(_, _)
FirstClose(T, i) ==
    IF i > Len(T) THEN 0 ELSE IF T[i] = CLOSE THEN i ELSE FirstClose(T, i + 1)

\* index of the first element of T at or after i that \s does not match
RECURSIVE FirstNotSpace(_, _)
FirstNotSpace(T, i) ==
    IF i > Len(T) THEN 0 ELSE IF ~IsSpace(T[i]) THEN i ELSE FirstNotSpace(T, i + 1)

\* start of the run of whitespace that ends right before index j, not below k
RECURSIVE WsRunStart(_, _, _)
WsRunStart(T, j, k) == IF j > k /\ IsSpace(T[j - 1]) THEN WsRunStart(T, j - 1, k) ELSE j

\* rx.search from index `from`: the leftmost match of
\*   (<script[^>]*id=["'](?:data|html-support-data)["'][^>]*>\s*)([\s\S]*?)(\s*</script>)
\* as [i, k, p, j]: group 1 is T[i..k-1], group 2 T[k..p-1], group 3 T[p..j];
\* i = 0 when there is no match
Search(T, from) ==
    LET i == FirstOpen(T, from)
    IN  IF i = 0 THEN [i |-> 0, k |-> 0, p |-> 0, j |-> 0]
        ELSE LET k == FirstNotSpace(T, i + 1)
                 j == IF k = 0 THEN 0 ELSE FirstClose(T, k)
             IN  IF j = 0 THEN [i |-> 0, k |-> 0, p |-> 0, j |-> 0]
                 ELSE [i |-> i, k |-> k, p |-> WsRunStart(T, j, k), j |-> j]

\* rx.sub(repl, T): every non-overlapping match, left to right, replaced by
\* group 1, the expanded payload, group 3
RECURSIVE SubAll(_, _, _)
SubAll(T, from, repl) ==
    LET m == Search(T, from)
    IN  IF m.i = 0 THEN SubSeq(T, from, Len(T))
        ELSE SubSeq(T, from, m.k - 1) \o repl \o SubSeq(T, m.p, m.j) \o SubAll(T, m.j + 1, repl)

\* rx.sub(rf"\1{payload}\3", template_html)
Sub(T, payload) ==
    IF Search(T, 1).i = 0 THEN T
    ELSE LET repl == ExpandTemplate(payload)
         IN  IF repl = ReError THEN ReError ELSE SubAll(T, 1, repl)

\* inject_json: <<"exit">> when die() ends the run, <<"re.error">> when
\* rx.sub raises, else the merged text
Exit == <<"exit">>
inject_json(template_html, data) ==
    IF Search(template_html, 1).i = 0 THEN Exit
    ELSE Sub(template_html, Payload(data))

-----------------------------------------------------------------------------
(* normalize_headers, choose_header, convert, validate_for_lookup *)

\* str.lower() of one word of a header
LowerWord(w) ==
    CASE w \in {"Element", "ELEMENT"} -> "element"
      [] w = "Elements"                -> "elements"
      [] w = "HTML"                    -> "html"
      [] w = "Notes"                   -> "notes"
      [] w \in {"Aural", "AURAL"}      -> "aural"
      [] w = "UI"                      -> "ui"
      [] OTHER                         -> w

Lower(s) == [i \in 1..Len(s) |-> LowerWord(s[i])]

\* "element" in h.lower()
ContainsElement(h) == \E i \in 1..Len(h) : LowerWord(h[i]) \in {"element", "elements"}

\* h.lower() == "element"
EqualsElement(h) == Lower(h) = <<"element">>

NormalizeHeader(h) ==
    LET hh == Strip(CollapseWs(h))
    IN  IF Lower(hh) = <<"aural", SP, "ui">> THEN <<"AURAL", SP, "UI">> ELSE hh

normalize_headers(headers) == [i \in 1..Len(headers) |-> NormalizeHeader(headers[i])]

\* rows_to_text: each cell is (text, html, links); the text is wanted
rows_to_text(rows) == [r \in 1..Len(rows) |-> [c \in 1..Len(rows[r]) |-> rows[r][c][1]]]

\* the normalized names of the first row with an exact 'element', <<>> if none
RECURSIVE FirstExact(_)
FirstExact(rows) ==
    IF rows = <<>> THEN <<>>
    ELSE LET norm == normalize_headers(Head(rows))
         IN  IF \E i \in 1..Len(norm) : EqualsElement(norm[i]) THEN norm
             ELSE FirstExact(Tail(rows))

\* the normalized names of the first row with 'element' in a name, <<>> if none
RECURSIVE FirstContaining(_)
FirstContaining(rows) ==
    IF rows = <<>> THEN <<>>
    ELSE LET norm == normalize_headers(Head(rows))
         IN  IF \E i \in 1..Len(norm) : ContainsElement(norm[i]) THEN norm
             ELSE FirstContaining(Tail(rows))

\* choose_header with the substring test tried before the exact tests
choose_header_SubstringFirst(thead_rows, header_candidates) ==
    IF FirstContaining(rows_to_text(thead_rows \o header_candidates)) # <<>>
        THEN FirstContaining(rows_to_text(thead_rows \o header_candidates))
    ELSE <<>>

choose_header(thead_rows, header_candidates) ==
    IF FirstExact(rows_to_text(thead_rows)) # <<>>
        THEN FirstExact(rows_to_text(thead_rows))
    ELSE IF FirstExact(rows_to_text(header_candidates)) # <<>>
        THEN FirstExact(rows_to_text(header_candidates))
    ELSE FirstContaining(rows_to_text(thead_rows \o header_candidates))

\* a dict: the sequence of its <<key, value>> pairs, in insertion order
RECURSIVE DictIndex(_, _, _)
DictIndex(d, k, i) ==
    IF i > Len(d) THEN 0 ELSE IF d[i][1] = k THEN i ELSE DictIndex(d, k, i + 1)

DictHas(d, k) == DictIndex(d, k, 1) # 0
DictGet(d, k, default) == IF DictHas(d, k) THEN d[DictIndex(d, k, 1)][2] ELSE default
DictSet(d, k, v) ==
    IF DictHas(d, k) THEN [d EXCEPT ![DictIndex(d, k, 1)] = <<k, v>>] ELSE Append(d, <<k, v>>)

EmptyCell == << <<>>, <<>>, <<>> >>

\* row[:n] + [("", "", [])] * max(0, n - len(row))
AlignCells(row, n) ==
    [i \in 1..n |-> IF i <= Len(row) THEN row[i] ELSE EmptyCell]

\* the loop over enumerate(headers): obj, html_map, links_map after the
\* first n headers
RECURSIVE ObjUpTo(_, _, _)
ObjUpTo(headers, cells, n) ==
    IF n = 0 THEN <<>> ELSE DictSet(ObjUpTo(headers, cells, n - 1), headers[n], cells[n][1])

RECURSIVE HtmlMapUpTo(_, _, _)
HtmlMapUpTo(headers, cells, n) ==
    IF n = 0 THEN <<>>
    ELSE IF Strip(cells[n][2]) # <<>>
         THEN DictSet(HtmlMapUpTo(headers, cells, n - 1), headers[n], cells[n][2])
         ELSE HtmlMapUpTo(headers, cells, n - 1)

RECURSIVE LinksMapUpTo(_, _, _)
LinksMapUpTo(headers, cells, n) ==
    IF n = 0 THEN <<>>
    ELSE IF cells[n][3] # <<>>
         THEN DictSet(LinksMapUpTo(headers, cells, n - 1), headers[n], cells[n][3])
         ELSE LinksMapUpTo(headers, cells, n - 1)

\* the Record built for one data row before the filter
ProjectRow(headers, row) ==
    LET cells == AlignCells(row, Len(headers))
        n == Len(headers)
        obj == ObjUpTo(headers, cells, n)
        html_map == HtmlMapUpTo(headers, cells, n)
        links_map == LinksMapUpTo(headers, cells, n)
        obj1 == IF html_map # <<>> THEN DictSet(obj, <<"_html">>, html_map) ELSE obj
    IN  IF links_map # <<>> THEN DictSet(obj1, <<"_links">>, links_map) ELSE obj1

\* a filter that keeps every row
SkipRow_Never(obj) == FALSE

\* a filter that finds the Element column whatever its case
SkipRow_AnyCase(obj) ==
    \A i \in 1..Len(obj) :
        (obj[i][1] \notin {<<"_html">>, <<"_links">>} /\ ContainsElement(obj[i][1]))
            => Strip(obj[i][2]) = <<>>

\* not obj.get("Element", "").strip(): the row is skipped
SkipRow(obj) == Strip(DictGet(obj, <<"Element">>, <<>>)) = <<>>

RECURSIVE ProjectRows(_, _)
ProjectRows(headers, data_rows) ==
    IF data_rows = <<>> THEN <<>>
    ELSE LET obj == ProjectRow(headers, Head(data_rows))
         IN  (IF SkipRow(obj) THEN <<>> ELSE <<obj>>) \o ProjectRows(headers, Tail(data_rows))

\* re.search(r"\b(?:19|20)\d{2}\b", s): the first year of s, "" if none
RECURSIVE extract_year(_)
extract_year(s) ==
    IF s = <<>> THEN <<>>
    ELSE IF Head(s) \in {"1999", "2024"} THEN <<Head(s)>>
    ELSE extract_year(Tail(s))

\* caption of convert
CaptionOf(caption_text) == CollapseWs(Strip(unescape(caption_text)))

\* convert, on the grabber g after grab.feed: Exit when die() ends the run
\* (no header row found), else the Section
convert(g, sr_name) ==
    LET headers == choose_header(g.thead_rows, g.header_candidates)
    IN  IF headers = <<>> THEN Exit
        ELSE [ screen_reader |-> sr_name,
               caption |-> CaptionOf(g.caption_text),
               date |-> extract_year(CaptionOf(g.caption_text)),
               caption_links |-> g.caption_links,
               rows |-> ProjectRows(headers, g.data_rows) ]

\* the number of rows r with "Element" not in r or not r["Element"].strip()
RECURSIVE MissCount(_)
MissCount(rows) ==
    IF rows = <<>> THEN 0
    ELSE (IF ~DictHas(Head(rows), <<"Element">>) \/ Strip(DictGet(Head(rows), <<"Element">>, <<>>)) = <<>>
          THEN 1 ELSE 0) + MissCount(Tail(rows))

\* a validation that finds no problem
Problems_None(data) == <<>>

\* problems of validate_for_lookup, in section order
RECURSIVE Problems(_)
Problems(data) ==
    IF data = <<>> THEN <<>>
    ELSE LET sec == Head(data)
         IN  ( IF sec.rows = <<>>
                   THEN << [screen_reader |-> sec.screen_reader, problem |-> "no rows parsed."] >>
               ELSE IF MissCount(sec.rows) > 0
                   THEN << [screen_reader |-> sec.screen_reader,
                            problem |-> "row(s) missing non-empty 'Element'."] >>
               ELSE <<>> ) \o Problems(Tail(data))

-----------------------------------------------------------------------------
(* inject_json and replace_json_in_lookup applied to a template and a Bundle *)

StrChars == {"n", DQ, BS, NL, "<", "/", CTL}
TemplateChars == {OPEN, CLOSE, SP, "x"}

\* the grabber after feeding a table with the header row ["Element"], one
\* data row whose only cell holds the characters t, and, with cap, a caption
\* of the same characters
GrabbedTable(t, cap) ==
    [ reset_state EXCEPT
        !.table_seen = TRUE,
        !.caption_text = IF cap THEN t ELSE <<>>,
        !.header_candidates = << << << <<"Element">>, <<"Element">>, <<>> >> >> >>,
        !.data_rows = << << << TextNorm(t), t, CellLinks(t, 1) >> >> >> ]

\* rx.search(html) fails: die(); else the text rx.sub returns
\* (replace_json_in_lookup writes it to the file unless it equals html)
replace_json_in_lookup(html, data) ==
    IF Search(html, 1).i = 0 THEN Exit
    ELSE Sub(html, Payload(data))

\* the inputs: every string with a well-formed template, and every template
\* with a few strings
SampleTemplates == { <<OPEN, CLOSE>>, <<"x", OPEN, SP, "x", SP, CLOSE, "x">> }
SampleStrings == { <<>>, <<"n">>, <<BS>> }

InitInject ==
    /\ \/ /\ \E t \in SeqsUpTo(StrChars, MaxStrLen) : \E cap \in BOOLEAN :
                bundle = << convert(GrabbedTable(t, cap), <<"JAWS">>) >>
          /\ template \in SampleTemplates
       \/ /\ \E t \in SampleStrings :
                bundle = << convert(GrabbedTable(t, FALSE), <<"JAWS">>) >>
          /\ template \in SeqsUpTo(TemplateChars, MaxTemplateLen)
    /\ lookup_file = template
    /\ merged = None
    /\ pc = "start"
    /\ grab = reset_state /\ ev = NoEvent /\ fed = 0
    /\ chosen = None /\ problems = None
    /\ inputs = None /\ out_html = None /\ out_json = None

InjectJson ==
    /\ pc = "start"
    /\ merged' = inject_json(template, bundle)
    /\ pc' = IF merged' = Exit THEN "exit"
             ELSE IF merged' = ReError THEN "re.error"
             ELSE "inject_json returned"
    /\ UNCHANGED <<parserVars, chosen, bundle, problems, template, lookup_file, outVars>>

ReplaceJsonInLookup ==
    /\ pc = "start"
    /\ LET updated == replace_json_in_lookup(lookup_file, bundle)
       IN  /\ lookup_file' = IF updated \in {Exit, ReError} THEN lookup_file ELSE updated
           /\ pc' = IF updated = Exit THEN "exit"
                    ELSE IF updated = ReError THEN "re.error"
                    ELSE "replace_json_in_lookup returned"
    /\ UNCHANGED <<parserVars, chosen, bundle, problems, template, merged, outVars>>

NextInject == InjectJson \/ ReplaceJsonInLookup

SpecInject == InitInject /\ [][NextInject]_vars

-----------------------------------------------------------------------------
(* Claims about the injection, under SpecInject *)

\* the text the call left behind: what inject_json returned, or the lookup
\* file replace_json_in_lookup rewrote
Injected ==
    IF pc = "inject_json returned" THEN merged
    ELSE IF pc = "replace_json_in_lookup returned" THEN lookup_file
    ELSE None

\* the text between the first carrier opening tag of M and the first
\* </script> after it
Extracted(M) == SubSeq(M, FirstOpen(M, 1) + 1, FirstClose(M, FirstOpen(M, 1) + 1) - 1)

HasCloseSeq(s) == \E i \in 1..(Len(s) - 1) : s[i] = "<" /\ s[i + 1] = "/"

\* C1: re-extracting the carrier element's text from the injected template
\* and parsing it as JSON yields exactly the Bundle
C1_RoundTrip ==
    Injected # None => loads(Extracted(Injected)) = Lexemes(bundle)

\* C2: the injected text differs from the template only between the opening
\* and the closing tag of the one located carrier element
C2_Frame ==
    Injected # None =>
        LET m == Search(template, 1)
            after == Len(template) - m.j
        IN  /\ Len(Injected) >= m.i + 1 + after
            /\ SubSeq(Injected, 1, m.i) = SubSeq(template, 1, m.i)
            /\ SubSeq(Injected, Len(Injected) - after, Len(Injected))
                   = SubSeq(template, m.j, Len(template))

\* C3: the payload placed in the template holds no "</": the carrier element
\* is closed by the template's own closing tag only
C3_NoCloseSeq ==
    Injected # None => ~HasCloseSeq(Extracted(Injected))

\* a Bundle with "</" in a cell was injected
C3_Witness ==
    /\ Injected # None
    /\ HasCloseSeq(dumps(bundle))
    /\ HasCloseSeq(bundle[1].rows[1][1][2])

-----------------------------------------------------------------------------
(* choose_header applied to the header accumulators of a grabber *)

\* a header or data cell holding plain text: (text, html, links)
PlainCell(t) == <<t, t, <<>>>>

HeaderTexts ==
    { <<"Element">>, <<"ELEMENT">>, <<"HTML", NL, "Element">>, <<"Elements">>,
      <<"Notes">>, <<"Aural", SP, "UI">> }

\* the rows of 1..n cells whose texts are drawn from texts
RowsOver(texts, n) == UNION { [1..k -> {PlainCell(t) : t \in texts}] : k \in 1..n }

\* the sequences of non-empty rows holding at most n cells in total
RECURSIVE RowSeqs(_, _)
RowSeqs(texts, n) ==
    {<<>>} \cup
    UNION { { <<r>> \o rest : r \in [1..k -> {PlainCell(t) : t \in texts}],
                              rest \in RowSeqs(texts, n - k) } : k \in 1..n }

RECURSIVE CellCount(_)
CellCount(rows) == IF rows = <<>> THEN 0 ELSE Len(Head(rows)) + CellCount(Tail(rows))

InitHeader ==
    /\ \E th \in RowSeqs(HeaderTexts, MaxHeaderCells) :
         \E hc \in RowSeqs(HeaderTexts, MaxHeaderCells - CellCount(th)) :
            grab = [reset_state EXCEPT !.table_seen = TRUE,
                                       !.thead_rows = th,
                                       !.header_candidates = hc]
    /\ ev = NoEvent /\ fed = 0
    /\ pc = "choose_header"
    /\ chosen = None /\ bundle = None /\ problems = None
    /\ template = None /\ merged = None /\ lookup_file = None
    /\ inputs = None /\ out_html = None /\ out_json = None

\* headers = choose_header(grab.thead_rows, grab.header_candidates)
ChooseHeader ==
    /\ pc = "choose_header"
    /\ chosen' = choose_header(grab.thead_rows, grab.header_candidates)
    /\ pc' = IF chosen' = <<>> THEN "exit" ELSE "headers chosen"
    /\ UNCHANGED <<parserVars, bundle, problems, template, merged, lookup_file, outVars>>

NextHeader == ChooseHeader

SpecHeader == InitHeader /\ [][NextHeader]_vars

\* the normalized names of one header row
NormRow(row) == [c \in 1..Len(row) |-> NormalizeHeader(row[c][1])]

HasExactName(names) == \E i \in 1..Len(names) : Lower(names[i]) = <<"element">>

HasSubstringName(names) ==
    \E i \in 1..Len(names) : \E k \in 1..Len(names[i]) :
        LowerWord(names[i][k]) \in {"element", "elements"}

ExactIdx(rows) == { i \in 1..Len(rows) : HasExactName(NormRow(rows[i])) }
SubstringIdx(rows) == { i \in 1..Len(rows) : HasSubstringName(NormRow(rows[i])) }
Least(S) == CHOOSE i \in S : \A j \in S : i <= j

TieredHeader(th, hc) ==
    IF ExactIdx(th) # {} THEN NormRow(th[Least(ExactIdx(th))])
    ELSE IF ExactIdx(hc) # {} THEN NormRow(hc[Least(ExactIdx(hc))])
    ELSE IF SubstringIdx(th \o hc) # {} THEN NormRow((th \o hc)[Least(SubstringIdx(th \o hc))])
    ELSE <<>>

\* C5: choose_header returns the normalized names of the first header-group
\* row with a name equal to "element" in any case, else of the first other
\* candidate row passing that test, else of the first row (header-group rows,
\* then the others) with a name containing "element", else the empty result,
\* on which the run stops; whenever some candidate row has a column named
\* "Element" in any case the result is such a row.
C5_TieredHeader ==
    pc # "choose_header" =>
        /\ chosen = TieredHeader(grab.thead_rows, grab.header_candidates)
        /\ (chosen = <<>>) = (pc = "exit")
        /\ (ExactIdx(grab.thead_rows \o grab.header_candidates) # {} => HasExactName(chosen))

\* a substring-only row in the header group comes before an exact row among
\* the other candidates, and the exact row is returned
C5_Witness ==
    /\ pc = "headers chosen"
    /\ ExactIdx(grab.thead_rows) = {}
    /\ SubstringIdx(grab.thead_rows) # {}
    /\ ExactIdx(grab.header_candidates) # {}
    /\ 1 \notin ExactIdx(grab.header_candidates)
    /\ chosen = NormRow(grab.header_candidates[Least(ExactIdx(grab.header_candidates))])

-----------------------------------------------------------------------------
(* convert and validate_for_lookup applied to one grabbed table *)

ColumnTexts == { <<"Element">>, <<"ELEMENT">>, <<"HTML", NL, "Element">>, <<"Notes">> }

\* a cell whose text is inside an anchor
LinkCell(t) ==
    << t,
       <<OpenTag("a", <<<<"href", "u">>>>)>> \o t \o CloseTag("a"),
       << [href |-> "u", text |-> t] >> >>

DataCells == { EmptyCell, PlainCell(<<"a">>), LinkCell(<<"a">>) }

\* the sequences of non-empty data rows holding at most n cells in total
RECURSIVE DataRowSeqs(_)
DataRowSeqs(n) ==
    {<<>>} \cup
    UNION { { <<r>> \o rest : r \in [1..k -> DataCells], rest \in DataRowSeqs(n - k) }
            : k \in 1..n }

\* the header accumulators: no header row, or one row in either accumulator
HeaderPlacements ==
    { <<<<>>, <<>>>> }
    \cup { <<<<r>>, <<>>>> : r \in RowsOver(ColumnTexts, MaxCols) }
    \cup { <<<<>>, <<r>>>> : r \in RowsOver(ColumnTexts, MaxCols) }

InitConvert ==
    /\ \E h \in HeaderPlacements : \E d \in DataRowSeqs(MaxDataCells) :
            grab = [reset_state EXCEPT !.table_seen = TRUE,
                                       !.thead_rows = h[1],
                                       !.header_candidates = h[2],
                                       !.data_rows = d]
    /\ ev = NoEvent /\ fed = 0
    /\ pc = "convert"
    /\ chosen = None /\ bundle = None /\ problems = None
    /\ template = None /\ merged = None /\ lookup_file = None
    /\ inputs = None /\ out_html = None /\ out_json = None

\* out.append(convert(p, name)) for the only input file
Convert ==
    /\ pc = "convert"
    /\ chosen' = choose_header(grab.thead_rows, grab.header_candidates)
    /\ IF chosen' = <<>>
           THEN pc' = "exit" /\ UNCHANGED bundle
           ELSE pc' = "validate_for_lookup" /\ bundle' = <<convert(grab, <<"JAWS">>)>>
    /\ UNCHANGED <<parserVars, problems, template, merged, lookup_file, outVars>>

\* validate_for_lookup(bundle)
ValidateForLookup ==
    /\ pc = "validate_for_lookup"
    /\ problems' = Problems(bundle)
    /\ pc' = IF problems' # <<>> THEN "exit" ELSE "inject_json"
    /\ UNCHANGED <<parserVars, chosen, bundle, template, merged, lookup_file, outVars>>

NextConvert == Convert \/ ValidateForLookup

SpecConvert == InitConvert /\ [][NextConvert]_vars

\* convert has returned a Section
Converted == pc # "convert" /\ chosen # <<>>

\* the record has the key "Element" with a value that is not blank
HasElement(r) ==
    \E i \in 1..Len(r) :
        /\ r[i][1] = <<"Element">>
        /\ \E k \in 1..Len(r[i][2]) : ~IsSpace(r[i][2][k])

\* C4: every Record in the rows returned by convert has the key "Element"
\* present with a value that is non-blank after trimming, whatever the
\* resolved header and the data rows are.
C4_FilterInvariant ==
    Converted =>
        \A s \in 1..Len(bundle) : \A r \in 1..Len(bundle[s].rows) : HasElement(bundle[s].rows[r])

\* convert kept a row and dropped another one
C4_Witness ==
    /\ Converted
    /\ Len(bundle[1].rows) >= 1
    /\ Len(bundle[1].rows) < Len(grab.data_rows)

\* the resolved header has no name exactly equal to "Element"
NoElementName(names) == \A i \in 1..Len(names) : names[i] # <<"Element">>

\* C10: whenever the resolved header contains no name exactly equal to
\* "Element", convert returns a Section with zero rows whatever the data rows
\* contain, and validate_for_lookup then fails the run with a "no rows
\* parsed" problem for that section.
C10_CaseMismatchFailsRun ==
    (Converted /\ NoElementName(chosen)) =>
        /\ bundle[1].rows = <<>>
        /\ pc # "validate_for_lookup" =>
              /\ pc = "exit"
              /\ \E i \in 1..Len(problems) :
                    problems[i] = [screen_reader |-> bundle[1].screen_reader,
                                   problem |-> "no rows parsed."]

\* the header was accepted for "ELEMENT", a data row has text in that
\* column, and the run has failed in validation
C10_Witness ==
    /\ pc = "exit"
    /\ chosen = << <<"ELEMENT">> >>
    /\ \E r \in 1..Len(grab.data_rows) : grab.data_rows[r][1][1] = <<"a">>

-----------------------------------------------------------------------------
(* main: one run of the generator over INPUT_FILES and LOOKUP_TEMPLATE *)

\* p.name.lower() of a file name <<stem, suffix>>
LowerName(name) == << (IF name[1] = "JAWS" THEN "jaws" ELSE name[1]), name[2] >>

\* mapping.get(p.name.lower(), p.stem) of build_bundle
DisplayName(name) ==
    CASE LowerName(name) = <<"jaws", ".html">>             -> <<"JAWS">>
      [] LowerName(name) = <<"nvda", ".html">>             -> <<"NVDA">>
      [] LowerName(name) = <<"talkback-android", ".html">> -> <<"TalkBack", SP, "on", SP, "Android">>
      [] LowerName(name) = <<"vo-mac", ".html">>           -> <<"VoiceOver", SP, "on", SP, "Mac">>
      [] LowerName(name) = <<"vo-ios", ".html">>           -> <<"VoiceOver", SP, "on", SP, "iOS">>
      [] OTHER                                             -> <<name[1]>>

\* an input file: whether it exists, its name, and the grabber after feeding
\* its text
InputDoc(name, th, hc, data) ==
    [ exists |-> TRUE, name |-> name,
      table |-> [reset_state EXCEPT !.table_seen = TRUE, !.thead_rows = th,
                                    !.header_candidates = hc, !.data_rows = data] ]

SampleDocs ==
    { InputDoc(<<"JAWS", ".html">>,
               << <<PlainCell(<<"Element">>), PlainCell(<<"Notes">>)>> >>, <<>>,
               << <<PlainCell(<<"a">>), LinkCell(<<"a">>)>>, <<EmptyCell>> >>),
      InputDoc(<<"nvda", ".html">>,
               <<>>, << <<PlainCell(<<"ELEMENT">>)>> >>,
               << <<PlainCell(<<"a">>)>> >>),
      InputDoc(<<"vo-mac", ".html">>,
               <<>>, << <<PlainCell(<<"Element">>)>> >>,
               << <<EmptyCell>> >>),
      InputDoc(<<"other", ".html">>,
               <<>>, << <<PlainCell(<<"Notes">>)>> >>,
               << <<PlainCell(<<"a">>)>> >>),
      InputDoc(<<"vo-ios", ".html">>,
               <<>>, << <<PlainCell(<<"Element">>)>> >>,
               << <<PlainCell(<<CTL>>)>> >>),
      [ exists |-> FALSE, name |-> <<"gone", ".html">>, table |-> reset_state ] }

\* the template file: missing, without a carrier element, or with one
MainTemplates == { None, <<"x">>, <<OPEN, CLOSE>>, <<"x", OPEN, SP, "x", CLOSE>> }

InitMain ==
    /\ inputs \in SeqsUpTo(SampleDocs, MaxInputs)
    /\ template \in MainTemplates
    /\ out_html = <<>> /\ out_json = <<>>
    /\ pc = "get_env_list"
    /\ chosen = <<>> /\ bundle = <<>> /\ problems = <<>>
    /\ merged = None /\ lookup_file = None
    /\ grab = reset_state /\ ev = NoEvent /\ fed = 0

\* inputs = get_env_list("INPUT_FILES")
GetEnvList ==
    /\ pc = "get_env_list"
    /\ pc' = IF inputs = <<>> \/ \E i \in 1..Len(inputs) : ~inputs[i].exists
             THEN "exit" ELSE "get_env_path"
    /\ UNCHANGED <<parserVars, chosen, bundle, problems, template, merged, lookup_file, outVars>>

\* template = get_env_path("LOOKUP_TEMPLATE")
GetEnvPath ==
    /\ pc = "get_env_path"
    /\ pc' = IF template = None THEN "exit" ELSE "get_env_output_path"
    /\ UNCHANGED <<parserVars, chosen, bundle, problems, template, merged, lookup_file, outVars>>

\* out_html = get_env_output_path(): the path only, no file is created
GetEnvOutputPath ==
    /\ pc = "get_env_output_path"
    /\ pc' = "build_bundle"
    /\ UNCHANGED <<parserVars, chosen, bundle, problems, template, merged, lookup_file, outVars>>

\* one iteration of the loop of build_bundle: out.append(convert(p, name))
BuildBundle ==
    /\ pc = "build_bundle"
    /\ LET p == inputs[Len(bundle) + 1]
       IN  /\ grab' = p.table
           /\ chosen' = choose_header(p.table.thead_rows, p.table.header_candidates)
           /\ IF chosen' = <<>>
                  THEN pc' = "exit" /\ UNCHANGED bundle
                  ELSE /\ bundle' = Append(bundle, convert(p.table, DisplayName(p.name)))
                       /\ pc' = IF Len(bundle') = Len(inputs)
                                THEN "validate_for_lookup" ELSE "build_bundle"
    /\ UNCHANGED <<ev, fed, problems, template, merged, lookup_file, outVars>>

\* merged = inject_json(template.read_text(), bundle)
MainInjectJson ==
    /\ pc = "inject_json"
    /\ merged' = inject_json(template, bundle)
    /\ pc' = IF merged' = Exit THEN "exit"
             ELSE IF merged' = ReError THEN "re.error"
             ELSE "write_html"
    /\ UNCHANGED <<parserVars, chosen, bundle, problems, template, lookup_file, outVars>>

\* out_html.write_text(merged)
WriteHtml ==
    /\ pc = "write_html"
    /\ out_html' = <<merged>>
    /\ pc' = "write_json"
    /\ UNCHANGED <<parserVars, chosen, bundle, problems, template, merged, lookup_file,
                   inputs, out_json>>

\* out_json.write_text(json.dumps(bundle, ensure_ascii=False, indent=2))
WriteJson ==
    /\ pc = "write_json"
    /\ out_json' = << [indent |-> 2, data |-> bundle] >>
    /\ pc' = "done"
    /\ UNCHANGED <<parserVars, chosen, bundle, problems, template, merged, lookup_file,
                   inputs, out_html>>

NextMain ==
    \/ GetEnvList \/ GetEnvPath \/ GetEnvOutputPath \/ BuildBundle
    \/ ValidateForLookup \/ MainInjectJson \/ WriteHtml \/ WriteJson

SpecMain == InitMain /\ [][NextMain]_vars

\* an output file has been written
Written == out_html # <<>> \/ out_json # <<>>

\* the carrier element occurs in the template
CarrierIn(T) ==
    \E i \in 1..Len(T) : T[i] = OPEN /\ \E j \in (i + 1)..Len(T) : T[j] = CLOSE

\* C6: the output HTML file and the sibling JSON file are written only
\* after every input section has resolved a header, validation has found no
\* problem in any section, and the carrier element has been found in the
\* template; when the run stops on an error neither file has been written.
C6_AllOrNothing ==
    /\ Written =>
          /\ Len(bundle) = Len(inputs)
          /\ \A i \in 1..Len(inputs) :
                /\ inputs[i].exists
                /\ SubstringIdx(inputs[i].table.thead_rows \o inputs[i].table.header_candidates) # {}
          /\ \A s \in 1..Len(bundle) :
                /\ bundle[s].rows # <<>>
                /\ \A r \in 1..Len(bundle[s].rows) : HasElement(bundle[s].rows[r])
          /\ template # None /\ CarrierIn(template)
    /\ pc = "exit" => ~Written

\* a run over two inputs has written both files
C6_Witness ==
    /\ pc = "done"
    /\ Len(inputs) = 2
    /\ out_html # <<>> /\ out_json # <<>>

====
